---- MODULE Spec2Model ----
(***************************************************************************)
(* Model of the knowledge-base ingestion pipeline: the sentence chunker    *)
(* (DocumentService._chunk_text), the document mapper, the MySQL chunk     *)
(* insert, the embedder and the Pinecone reconciler, as driven by App.sync.*)
(***************************************************************************)
EXTENDS Integers, Sequences, FiniteSets, TLC

(* ---------------- program constants ---------------- *)
CHUNK_MAX_SIZE == 800
CHUNK_OVERLAP == 80
maxconnections == 20

\* get_chunks_by_document(document_id, limit=1000)
limit == 1000

(* ---------------- bounds of the pipeline model ---------------- *)
\* identifiers uuid.uuid4() may hand out in one behaviour
MaxIds == 5
\* external calls that may fail in one behaviour
MaxFailures == 1
\* the titles of the files of the drive folder
Titles == {"t1", "t2"}
\* the texts a file may hold, as the token counts of its sentences; <<>> is
\* an empty or whitespace-only file. They chunk into 1, 2 and 3 chunks.
Texts == {<<>>, <<400>>, <<300, 790>>, <<790, 780, 770>>}

(* ---------------- bounds of the chunker model ---------------- *)
MaxSentences == 4
MaxUpsertChunks == 3
MaxSupaChunks == 2
MaxCleanupChunks == 2
MaxBulkChunks == 2
MaxMySQLIds == 4
\* token counts a sentence may have (count_tokens is an external tokenizer)
TokenValues == {40, 80, 400, 790, 810}

VARIABLES
    \* ---- DocumentService._chunk_text, one run ----
    sentences,       \* sent_tokenize(text): sentence i has sentences[i] tokens
    pos,             \* index of the sentence the for loop handles next
    chunks,          \* chunks emitted so far; a chunk is the sequence of the
                     \* indices of the sentences joined into it
    current_chunk,   \* the running buffer (sentence indices)
    current_tokens,  \* the running token total the code keeps
    cpc,             \* "loop" | "done"
    \* ---- the stores ----
    docTable,        \* MySQL document table: records [id, title, content]
    chunkTable,      \* MySQL chunk table: [id, document_id, chunk_index,
                     \*                     content, token_count]
    index,           \* Pinecone index: [id, values, document_id, chunk_index,
                     \*                  token_count], one vector per id
    nextId,          \* the next identifier uuid.uuid4() hands out
    \* ---- App.sync, one run ----
    pc,              \* where App.sync stands
    dir,             \* the files downloaded by this run: title -> text
    filenames,       \* the downloaded files, in os.listdir order
    mapped_docs,     \* _map_documents: records mapped so far
    chunked_docs,    \* the flat chunk list (ids set by bulk_insert_chunks)
    embedded_chunks, \* generate_embeddings: <<[document_id, chunks]>>, the
                     \* dict in insertion order
    loop,            \* the index the running for loop has reached
    call,            \* which call of PineconeService.sync runs (1 or 2)
    raised,          \* an exception is propagating out of App.sync
    \* ---- history, read by the properties only ----
    failures,        \* the number of external calls that have failed so far
    docsAtStart,     \* docTable when the run started
    prevIndex,       \* index before the last PineconeService.sync iteration
    last,            \* that iteration: [document_id, existing_keys, new_count,
                     \*                  call, ok]
    embed,           \* the last run of generate_embeddings: [calls, failed]
    clearing,        \* the clearing of the download directory by this or the
                     \* last App.sync: [attempts, failed, outcome]
    \* ---- PineconeService.upsert_chunks, called on its own ----
    upc,             \* "idle" | "call" | "returned" | "raised"
    upsert_input,    \* the chunk list it is given
    \* ---- SupabaseService.sync_document_chunks ----
    supaTable,       \* the rows of the table document_chunks
    supaNextId,      \* the next auto-generated row id
    document_chunks, \* the argument: a list of [document_id, chunks]
    supaLoop,        \* the position of the loop over document_chunks
    spc,             \* "idle" | "loop" | "returned" | "raised"
    supaBefore,      \* history: the rows stored when the call began
    supaFailed,      \* history: the documents with a failed delete or upsert
    \* ---- CleanupService.run ----
    kpc,             \* "idle" | "lookup" | "mysql" | "pinecone" |
                     \* "returned" | "raised"
    requested_files, \* the file names the service was constructed with
    document_ids,    \* the resolved ids, as get_document_ids returned them
    kloop,           \* the position of the loop of delete_chunks_in_pinecone
    storesBefore,    \* history: [docs, rows, vectors] when run began
    issuedMySQL,     \* history: the ids delete_documents_by_ids was called for
    issuedPinecone,  \* history: the ids index.delete was called for
    pineconeFailed,  \* history: the ids whose index.delete raised
    mysqlFailed,     \* history: delete_documents_by_ids raised
    \* ---- MySQLService, statement by statement ----
    mpc,             \* "idle" | "try" | "body" | "except" | "finally"
    mop,             \* the operation called
    margs,           \* its argument: a chunk list, a document or a title
    mloop,           \* the position of the loop of bulk_insert_chunks
    checkedOut,      \* the connections taken from the pool and not returned
    txn,             \* "none" | "open": the transaction of the connection
    pending,         \* the rows written in the open transaction
    tableBefore,     \* history: the table the operation writes, at its call
    mresult          \* "none" | "returned" | "raised"

chunkVars == <<sentences, pos, chunks, current_chunk, current_tokens, cpc>>
storeVars == <<docTable, chunkTable, index, nextId>>
syncVars == <<pc, dir, filenames, mapped_docs, chunked_docs, embedded_chunks,
              loop, call, raised>>
histVars == <<failures, docsAtStart, prevIndex, last>>

upsertVars == <<upc, upsert_input>>
supaVars == <<supaTable, supaNextId, document_chunks, supaLoop, spc,
              supaBefore, supaFailed>>
\* the variables of the operations App.sync does not run
cleanupVars == <<kpc, requested_files, document_ids, kloop, storesBefore,
                 issuedMySQL, issuedPinecone, pineconeFailed, mysqlFailed>>
mysqlVars == <<mpc, mop, margs, mloop, checkedOut, txn, pending, tableBefore,
               mresult>>
otherVars == <<upsertVars, supaVars, cleanupVars, mysqlVars>>

pipelineVars == <<chunkVars, storeVars, syncVars, histVars, embed, clearing>>

vars == <<pipelineVars, otherVars>>

(* ---------------- helpers ---------------- *)
RECURSIVE SeqSum(_)
SeqSum(s) == IF s = <<>> THEN 0 ELSE s[1] + SeqSum(Tail(s))

SeqsUpTo(S, n) == UNION {[1..k -> S] : k \in 0..n}

\* token total of a chunk given as sentence indices into toks
TokensOf(toks, chunk) == SeqSum([k \in 1..Len(chunk) |-> toks[chunk[k]]])

(* ---------------- DocumentService._chunk_text ---------------- *)
\* a seed built with append in place of insert(0, ...)
InsertBack(overlap_chunk, sent) == overlap_chunk \o <<sent>>

\* overlap_chunk.insert(0, sent)
InsertFront(overlap_chunk, sent) == <<sent>> \o overlap_chunk

\* a seed that takes one sentence only ("if" in place of "while")
OverlapSeedOnce(toks, cur, overlap_chunk, overlap_tokens) ==
    IF cur # <<>> /\ overlap_tokens < CHUNK_OVERLAP
    THEN [overlap_chunk |-> InsertFront(overlap_chunk, cur[Len(cur)]),
          overlap_tokens |-> overlap_tokens + toks[cur[Len(cur)]]]
    ELSE [overlap_chunk |-> overlap_chunk, overlap_tokens |-> overlap_tokens]

\* the while loop of lines 161-164: pop sentences off the end of the buffer
\* until the seed holds at least CHUNK_OVERLAP tokens or the buffer is empty
RECURSIVE OverlapSeed(_, _, _, _)
OverlapSeed(toks, cur, overlap_chunk, overlap_tokens) ==
    IF cur # <<>> /\ overlap_tokens < CHUNK_OVERLAP
    THEN LET sent == cur[Len(cur)]
         IN OverlapSeed(toks, SubSeq(cur, 1, Len(cur) - 1),
                        InsertFront(overlap_chunk, sent),
                        overlap_tokens + toks[sent])
    ELSE [overlap_chunk |-> overlap_chunk, overlap_tokens |-> overlap_tokens]

\* the test of line 154
ExceedsMax(cur_tokens, sentence_tokens) ==
    cur_tokens + sentence_tokens > CHUNK_MAX_SIZE

\* one iteration of the for loop (lines 150-170) on sentence i
ChunkSentence(toks, st, i) ==
    IF ExceedsMax(st.current_tokens, toks[i])
    THEN LET seed == OverlapSeed(toks, st.current_chunk, <<>>, 0)
         IN [chunks |-> IF st.current_chunk # <<>>
                        THEN Append(st.chunks, st.current_chunk)
                        ELSE st.chunks,
             current_chunk |-> seed.overlap_chunk \o <<i>>,
             current_tokens |-> seed.overlap_tokens + toks[i]]
    ELSE [chunks |-> st.chunks,
          current_chunk |-> Append(st.current_chunk, i),
          current_tokens |-> st.current_tokens + toks[i]]

\* lines 172-176: flush what is left
ChunkLast(st) ==
    IF st.current_chunk # <<>> THEN Append(st.chunks, st.current_chunk)
    ELSE st.chunks

RECURSIVE ChunkLoop(_, _, _)
ChunkLoop(toks, st, i) ==
    IF i > Len(toks) THEN st
    ELSE ChunkLoop(toks, ChunkSentence(toks, st, i), i + 1)

\* _chunk_text as a function of the sentence token counts
ChunkText(toks) ==
    ChunkLast(ChunkLoop(toks,
        [chunks |-> <<>>, current_chunk |-> <<>>, current_tokens |-> 0], 1))

(* ---------------- helpers of the pipeline ---------------- *)
Min(a, b) == IF a < b THEN a ELSE b

SeqRange(s) == {s[k] : k \in 1..Len(s)}

\* every order in which the elements of S can be listed
RECURSIVE Perms(_)
Perms(S) ==
    IF S = {} THEN {<<>>}
    ELSE UNION {{<<x>> \o p : p \in Perms(S \ {x})} : x \in S}

\* utils.tokens.count_tokens of a chunk: the tokens of its sentences
count_tokens(content) == SeqSum(content)

(* ---------------- DocumentService._generate_chunks ---------------- *)
\* " ".join(current_chunk): the text of a chunk, as its sentences' tokens
ChunkContent(toks, chunk) == [k \in 1..Len(chunk) |-> toks[chunk[k]]]

\* enumerate(chunks) starts at 0
ChunkIndexOf(k) == k - 1

\* the chunk records of one document (lines 122-134); id 0 is "no id yet"
ChunksOfDocument(doc) ==
    LET cs == ChunkText(doc.content)
    IN [k \in 1..Len(cs) |->
          [id |-> 0,
           document_id |-> doc.id,
           chunk_index |-> ChunkIndexOf(k),
           content |-> ChunkContent(doc.content, cs[k]),
           token_count |-> count_tokens(ChunkContent(doc.content, cs[k]))]]

RECURSIVE generate_chunks(_)
generate_chunks(documents) ==
    IF documents = <<>> THEN <<>>
    ELSE ChunksOfDocument(Head(documents)) \o generate_chunks(Tail(documents))

(* ---------------- MySQLService ---------------- *)
\* a lookup that finds no record
DocumentsByTitleNone(title) == {}

\* SELECT * FROM documents WHERE title = %s
DocumentsByTitle(title) == {d \in docTable : d.title = title}

\* bulk_insert_chunks, lines 178-191: chunk k gets the k-th fresh uuid
WithIds(chunk_list, base) ==
    [k \in 1..Len(chunk_list) |-> [chunk_list[k] EXCEPT !.id = base + k - 1]]

ChunkRow(chunk) ==
    [id |-> chunk.id, document_id |-> chunk.document_id,
     chunk_index |-> chunk.chunk_index, content |-> chunk.content,
     token_count |-> chunk.token_count]

\* the rows one successful call commits
InsertedRows(chunk_list) == {ChunkRow(chunk_list[k]) : k \in 1..Len(chunk_list)}

(* ---------------- EmbeddingService.generate_embeddings ---------------- *)
\* the embedding the external model returns for a text
Embedding(content) == <<"embedding", content>>

WithEmbedding(chunk) ==
    [id |-> chunk.id, document_id |-> chunk.document_id,
     chunk_index |-> chunk.chunk_index, content |-> chunk.content,
     token_count |-> chunk.token_count, embedding |-> Embedding(chunk.content)]

\* the document ids of a chunk list, in order of first appearance
RECURSIVE DocOrder(_, _)
DocOrder(chunk_list, seen) ==
    IF chunk_list = <<>> THEN <<>>
    ELSE IF Head(chunk_list).document_id \in seen
         THEN DocOrder(Tail(chunk_list), seen)
         ELSE <<Head(chunk_list).document_id>>
              \o DocOrder(Tail(chunk_list),
                          seen \cup {Head(chunk_list).document_id})

\* a loop that a failed call ends: break, not continue
generate_embeddingsBreak(chunk_list, failed) ==
    LET RECURSIVE Okay(_)
        Okay(k) == IF k > Len(chunk_list) \/ k \in failed THEN <<>>
                   ELSE <<WithEmbedding(chunk_list[k])>> \o Okay(k + 1)
        good == Okay(1)
        order == DocOrder(good, {})
    IN [j \in 1..Len(order) |->
          [document_id |-> order[j],
           chunks |-> SelectSeq(good, LAMBDA c : c.document_id = order[j])]]

\* the positions embeddings.create is called for, in order: the loop of
\* lines 23-36 passes every chunk, a failed call is logged and passed over
EmbeddingCalls(chunk_list, failed) == [k \in 1..Len(chunk_list) |-> k]

\* grouped_embeddings: the chunks whose call succeeded, grouped by
\* document_id, the dict's keys in insertion order (lines 23-38)
generate_embeddings(chunk_list, failed) ==
    LET RECURSIVE Okay(_)
        Okay(k) == IF k > Len(chunk_list) THEN <<>>
                   ELSE (IF k \in failed THEN <<>>
                         ELSE <<WithEmbedding(chunk_list[k])>>) \o Okay(k + 1)
        good == Okay(1)
        order == DocOrder(good, {})
    IN [j \in 1..Len(order) |->
          [document_id |-> order[j],
           chunks |-> SelectSeq(good, LAMBDA c : c.document_id = order[j])]]

(* ---------------- PineconeService ---------------- *)
VectorsOfDocument(idx, document_id) == {v \in idx : v.document_id = document_id}

IdsOf(vs) == {v.id : v \in vs}

\* get_chunks_by_document: what a fetch that succeeds may return, as
\* list(existing_chunks.keys()). The index returns at most `lim` of the
\* document's vectors, in an order the code does not fix.
FetchedKeys(idx, document_id, lim) ==
    LET ids == IdsOf(VectorsOfDocument(idx, document_id))
    IN UNION {Perms(S) : S \in {T \in SUBSET ids :
                                   Cardinality(T) = Min(Cardinality(ids), lim)}}

\* a reuse loop that stops one position early: range(min(...) - 1)
ReuseIdsShort(chunk_list, existing_keys) ==
    [k \in 1..Len(chunk_list) |->
        IF k <= Min(Len(existing_keys), Len(chunk_list)) - 1
        THEN [chunk_list[k] EXCEPT !.id = existing_keys[k]]
        ELSE chunk_list[k]]

\* lines 62-64: existing ids given to the new chunks by position
ReuseIds(chunk_list, existing_keys) ==
    [k \in 1..Len(chunk_list) |->
        IF k <= Min(Len(existing_keys), Len(chunk_list))
        THEN [chunk_list[k] EXCEPT !.id = existing_keys[k]]
        ELSE chunk_list[k]]

\* lines 66-75: existing_keys[new_count:], deleted when the list shrank
ExtraIds(existing_keys, new_count) ==
    IF new_count < Len(existing_keys)
    THEN SeqRange(SubSeq(existing_keys, new_count + 1, Len(existing_keys)))
    ELSE {}

\* index.delete(ids=...)
DeleteIds(idx, ids) == {v \in idx : v.id \notin ids}

\* a loop that ends at the first chunk without embedding: break, not continue
RECURSIVE BuildVectorsBreak(_, _, _)
BuildVectorsBreak(chunk_list, document_id, base) ==
    IF chunk_list = <<>> THEN <<>>
    ELSE LET chunk == Head(chunk_list)
             fresh == chunk.id = 0
         IN IF "embedding" \notin DOMAIN chunk
            THEN <<>>
            ELSE <<[id |-> IF fresh THEN base ELSE chunk.id,
                    values |-> chunk.embedding,
                    document_id |-> document_id,
                    chunk_index |-> chunk.chunk_index,
                    token_count |-> chunk.token_count]>>
                 \o BuildVectorsBreak(Tail(chunk_list), document_id,
                                      IF fresh THEN base + 1 ELSE base)

\* upsert_chunks, lines 93-112: one vector per chunk that has an embedding;
\* a chunk without id gets a fresh uuid, counted from base
RECURSIVE BuildVectors(_, _, _)
BuildVectors(chunk_list, document_id, base) ==
    IF chunk_list = <<>> THEN <<>>
    ELSE LET chunk == Head(chunk_list)
             fresh == chunk.id = 0
         IN IF "embedding" \notin DOMAIN chunk
            THEN BuildVectors(Tail(chunk_list), document_id, base)
            ELSE <<[id |-> IF fresh THEN base ELSE chunk.id,
                    values |-> chunk.embedding,
                    document_id |-> document_id,
                    chunk_index |-> chunk.chunk_index,
                    token_count |-> chunk.token_count]>>
                 \o BuildVectors(Tail(chunk_list), document_id,
                                 IF fresh THEN base + 1 ELSE base)

FreshNeeded(chunk_list) ==
    Cardinality({k \in 1..Len(chunk_list) :
                    "embedding" \in DOMAIN chunk_list[k] /\ chunk_list[k].id = 0})

\* index.upsert(vectors): a vector replaces the one stored under its id
RECURSIVE Upsert(_, _)
Upsert(idx, vectors) ==
    IF vectors = <<>> THEN idx
    ELSE Upsert({v \in idx : v.id # Head(vectors).id} \cup {Head(vectors)},
                Tail(vectors))

(* ---------------- the state after construction ---------------- *)
NoLast == [document_id |-> 0, existing_keys |-> <<>>, new_count |-> 0,
           call |-> 0, ok |-> FALSE]

NoClearing == [attempts |-> 0, failed |-> FALSE, outcome |-> "none"]

NoEmbed == [calls |-> <<>>, failed |-> {}]

\* PineconeService.upsert_chunks is not called on its own
UpsertIdle ==
    /\ upc = "idle"
    /\ upsert_input = <<>>

\* SupabaseService.sync_document_chunks is not called
SupaIdle ==
    /\ supaTable = {}
    /\ supaNextId = 1
    /\ document_chunks = <<>>
    /\ supaLoop = 1
    /\ spc = "idle"
    /\ supaBefore = {}
    /\ supaFailed = {}

\* CleanupService.run is not called
CleanupIdle ==
    /\ kpc = "idle"
    /\ requested_files = {}
    /\ document_ids = <<>>
    /\ kloop = 1
    /\ storesBefore = [docs |-> {}, rows |-> {}, vectors |-> {}]
    /\ issuedMySQL = {}
    /\ issuedPinecone = {}
    /\ pineconeFailed = {}
    /\ mysqlFailed = FALSE

\* MySQLService.__init__: the pool is created, no connection is taken
MySQLIdle ==
    /\ mpc = "idle"
    /\ mop = "none"
    /\ margs = <<>>
    /\ mloop = 1
    /\ checkedOut = 0
    /\ txn = "none"
    /\ pending = {}
    /\ tableBefore = {}
    /\ mresult = "none"

OthersIdle == UpsertIdle /\ SupaIdle /\ CleanupIdle /\ MySQLIdle

StoresEmpty ==
    /\ docTable = {}
    /\ chunkTable = {}
    /\ index = {}
    /\ nextId = 1

\* App.sync not running
SyncIdle ==
    /\ pc = "idle"
    /\ dir = <<>>
    /\ filenames = <<>>
    /\ mapped_docs = <<>>
    /\ chunked_docs = <<>>
    /\ embedded_chunks = <<>>
    /\ loop = 1
    /\ call = 1
    /\ raised = FALSE
    /\ failures = 0
    /\ docsAtStart = {}
    /\ prevIndex = {}
    /\ last = NoLast
    /\ embed = NoEmbed
    /\ clearing = NoClearing

\* empty stores, App.sync not running
PipelineIdle == StoresEmpty /\ SyncIdle

\* no run of the chunker
ChunkerIdle ==
    /\ sentences = <<>>
    /\ pos = 1
    /\ chunks = <<>>
    /\ current_chunk = <<>>
    /\ current_tokens = 0
    /\ cpc = "done"

(* ---------------- the chunker, step by step ---------------- *)
ChunkState == [chunks |-> chunks, current_chunk |-> current_chunk,
               current_tokens |-> current_tokens]

InitChunk ==
    /\ sentences \in SeqsUpTo(TokenValues, MaxSentences)
    /\ pos = 1
    /\ chunks = <<>>
    /\ current_chunk = <<>>
    /\ current_tokens = 0
    /\ cpc = "loop"
    /\ PipelineIdle
    /\ OthersIdle

\* an iteration that takes the flush branch
ChunkFlush ==
    /\ cpc = "loop"
    /\ pos <= Len(sentences)
    /\ ExceedsMax(current_tokens, sentences[pos])
    /\ LET st == ChunkSentence(sentences, ChunkState, pos)
       IN /\ chunks' = st.chunks
          /\ current_chunk' = st.current_chunk
          /\ current_tokens' = st.current_tokens
    /\ pos' = pos + 1
    /\ UNCHANGED <<sentences, cpc, storeVars, syncVars, histVars, embed, clearing,
                   otherVars>>

\* an iteration that appends to the buffer
ChunkAppend ==
    /\ cpc = "loop"
    /\ pos <= Len(sentences)
    /\ ~ExceedsMax(current_tokens, sentences[pos])
    /\ LET st == ChunkSentence(sentences, ChunkState, pos)
       IN /\ chunks' = st.chunks
          /\ current_chunk' = st.current_chunk
          /\ current_tokens' = st.current_tokens
    /\ pos' = pos + 1
    /\ UNCHANGED <<sentences, cpc, storeVars, syncVars, histVars, embed, clearing,
                   otherVars>>

\* the loop is over: the last flush and the return
ChunkReturn ==
    /\ cpc = "loop"
    /\ pos > Len(sentences)
    /\ chunks' = ChunkLast(ChunkState)
    /\ cpc' = "done"
    /\ UNCHANGED <<sentences, pos, current_chunk, current_tokens,
                   storeVars, syncVars, histVars, embed, clearing, otherVars>>

NextChunk == ChunkFlush \/ ChunkAppend \/ ChunkReturn

ChunkSpec == InitChunk /\ [][NextChunk]_vars

(* ---------------- App.sync, step by step ---------------- *)
\* identifiers a run over these files draws: one per new document, one per chunk
IdsNeeded(texts) ==
    LET need(t) == IF texts[t] = <<>> THEN 0
                   ELSE (IF DocumentsByTitle(t) = {} THEN 1 ELSE 0)
                        + Len(ChunkText(texts[t]))
        RECURSIVE Sum(_)
        Sum(S) == IF S = {} THEN 0
                  ELSE LET t == CHOOSE x \in S : TRUE
                       IN need(t) + Sum(S \ {t})
    IN Sum(DOMAIN texts)

\* app.py 41-48: fetch_files downloads the files of the drive folder
FetchFiles ==
    /\ pc = "idle"
    /\ \E D \in SUBSET Titles :
         \E texts \in [D -> Texts], order \in Perms(D) :
            /\ nextId + IdsNeeded(texts) - 1 <= MaxIds
            /\ dir' = texts
            /\ filenames' = order
            /\ pc' = IF D = {} THEN "finally" ELSE "map"
    /\ loop' = 1
    /\ docsAtStart' = docTable
    /\ clearing' = NoClearing
    /\ UNCHANGED <<chunkVars, otherVars, embed, storeVars, mapped_docs, chunked_docs,
                   embedded_chunks, call, raised, failures, prevIndex, last>>

\* _map_documents, one iteration of the loop of lines 66-109 that does not
\* raise
MapDocument ==
    /\ pc = "map"
    /\ loop <= Len(filenames)
    /\ LET title == filenames[loop]
           content == dir[title]
       IN IF content = <<>>
          THEN UNCHANGED <<docTable, nextId, mapped_docs>>
          ELSE IF DocumentsByTitle(title) = {}
               THEN LET data == [id |-> nextId, title |-> title,
                                 content |-> content]
                    IN /\ docTable' = docTable \cup {data}
                       /\ nextId' = nextId + 1
                       /\ mapped_docs' = Append(mapped_docs, data)
               ELSE \E document \in DocumentsByTitle(title) :
                       /\ mapped_docs' = Append(mapped_docs,
                              [document EXCEPT !.content = content])
                       /\ UNCHANGED <<docTable, nextId>>
    /\ loop' = loop + 1
    /\ UNCHANGED <<chunkVars, otherVars, embed, clearing, chunkTable, index, pc, dir, filenames,
                   chunked_docs, embedded_chunks, call, raised, histVars>>

\* the lookup or the insert of a document raises (lines 106-109): the insert
\* is rolled back and the exception leaves App.sync
MapDocumentRaises ==
    /\ pc = "map"
    /\ loop <= Len(filenames)
    /\ dir[filenames[loop]] # <<>>
    /\ raised' = TRUE
    /\ failures < MaxFailures
    /\ failures' = failures + 1
    /\ pc' = "finally"
    /\ UNCHANGED <<chunkVars, otherVars, embed, clearing, storeVars, dir, filenames, mapped_docs,
                   chunked_docs, embedded_chunks, loop, call, docsAtStart,
                   prevIndex, last>>

\* process, line 39: the chunks of the mapped documents
GenerateChunks ==
    /\ pc = "map"
    /\ loop > Len(filenames)
    /\ chunked_docs' = generate_chunks(mapped_docs)
    /\ pc' = "insert"
    /\ UNCHANGED <<chunkVars, otherVars, embed, clearing, storeVars, dir, filenames, mapped_docs,
                   embedded_chunks, loop, call, raised, histVars>>

\* bulk_insert_chunks commits
BulkInsertChunks ==
    /\ pc = "insert"
    /\ LET inserted == WithIds(chunked_docs, nextId)
       IN /\ chunkTable' = chunkTable \cup InsertedRows(inserted)
          /\ chunked_docs' = inserted
          /\ nextId' = nextId + Len(chunked_docs)
    /\ pc' = "embed"
    /\ UNCHANGED <<chunkVars, otherVars, embed, clearing, docTable, index, dir, filenames, mapped_docs,
                   embedded_chunks, loop, call, raised, histVars>>

\* an insert of bulk_insert_chunks fails: rollback, and the exception leaves
\* App.sync
BulkInsertRaises ==
    /\ pc = "insert"
    /\ chunked_docs # <<>>
    /\ raised' = TRUE
    /\ failures < MaxFailures
    /\ failures' = failures + 1
    /\ pc' = "finally"
    /\ UNCHANGED <<chunkVars, otherVars, embed, clearing, storeVars, dir, filenames, mapped_docs,
                   chunked_docs, embedded_chunks, loop, call, docsAtStart,
                   prevIndex, last>>

\* generate_embeddings: the calls of the positions in failed raise
GenerateEmbeddings ==
    /\ pc = "embed"
    /\ \E failed \in SUBSET (1..Len(chunked_docs)) :
          /\ failures + Cardinality(failed) <= MaxFailures
          /\ embedded_chunks' = generate_embeddings(chunked_docs, failed)
          /\ failures' = failures + Cardinality(failed)
          /\ embed' = [calls |-> EmbeddingCalls(chunked_docs, failed),
                        failed |-> failed]
    /\ pc' = "pinecone"
    /\ loop' = 1
    /\ call' = 1
    /\ UNCHANGED <<chunkVars, otherVars, clearing, storeVars, dir, filenames, mapped_docs,
                   chunked_docs, raised, docsAtStart, prevIndex, last>>

\* PineconeService.sync, one iteration of the loop of lines 49-79 that does
\* not raise. A document without chunks is passed over (lines 50-52). A fetch
\* that fails yields no existing key (lines 149-151). The ids are written
\* into the chunk dicts themselves.
PineconeSyncDocument ==
    /\ pc = "pinecone"
    /\ loop <= Len(embedded_chunks)
    /\ LET document_id == embedded_chunks[loop].document_id
           chunk_list == embedded_chunks[loop].chunks
       IN IF chunk_list = <<>>
          THEN UNCHANGED <<index, nextId, embedded_chunks, histVars>>
          ELSE /\ \E fetched \in BOOLEAN :
                   \E existing_keys \in
                        (IF fetched
                         THEN FetchedKeys(index, document_id, limit)
                         ELSE {<<>>}) :
                     LET reused == ReuseIds(chunk_list, existing_keys)
                         kept == DeleteIds(index,
                                     ExtraIds(existing_keys, Len(chunk_list)))
                     IN /\ fetched \/ failures < MaxFailures
                        /\ failures' = IF fetched THEN failures
                                       ELSE failures + 1
                        /\ index' = Upsert(kept,
                               BuildVectors(reused, document_id, nextId))
                        /\ nextId' = nextId + FreshNeeded(reused)
                        /\ embedded_chunks' =
                               [embedded_chunks EXCEPT ![loop].chunks = reused]
                        /\ last' = [document_id |-> document_id,
                                    existing_keys |-> existing_keys,
                                    new_count |-> Len(chunk_list),
                                    call |-> call, ok |-> fetched]
               /\ prevIndex' = index
               /\ UNCHANGED docsAtStart
    /\ loop' = loop + 1
    /\ UNCHANGED <<chunkVars, otherVars, embed, clearing, docTable, chunkTable, pc, dir, filenames,
                   mapped_docs, chunked_docs, call, raised>>

\* the delete of the extra vectors raises (lines 72-75), or the upsert does
\* (lines 118-120) after the extra vectors were deleted
PineconeSyncRaises ==
    /\ pc = "pinecone"
    /\ loop <= Len(embedded_chunks)
    /\ LET document_id == embedded_chunks[loop].document_id
           chunk_list == embedded_chunks[loop].chunks
       IN \E fetched \in BOOLEAN, in_delete \in BOOLEAN :
           \E existing_keys \in
                (IF fetched THEN FetchedKeys(index, document_id, limit)
                 ELSE {<<>>}) :
             LET extra == ExtraIds(existing_keys, Len(chunk_list))
             IN /\ chunk_list # <<>>
                /\ in_delete => extra # {}
                /\ failures + (IF fetched THEN 1 ELSE 2) <= MaxFailures
                /\ failures' = failures + (IF fetched THEN 1 ELSE 2)
                /\ index' = IF in_delete THEN index
                            ELSE DeleteIds(index, extra)
                /\ last' = [document_id |-> document_id,
                            existing_keys |-> existing_keys,
                            new_count |-> Len(chunk_list),
                            call |-> call, ok |-> FALSE]
    /\ prevIndex' = index
    /\ raised' = TRUE
    /\ pc' = "finally"
    /\ UNCHANGED <<chunkVars, otherVars, embed, clearing, docTable, chunkTable, nextId, dir, filenames,
                   mapped_docs, chunked_docs, embedded_chunks, loop, call,
                   docsAtStart>>

\* PineconeService.sync returns (line 80)
PineconeSyncReturn ==
    /\ pc = "pinecone"
    /\ loop > Len(embedded_chunks)
    /\ pc' = "synced"
    /\ UNCHANGED <<chunkVars, otherVars, embed, clearing, storeVars, dir, filenames, mapped_docs,
                   chunked_docs, embedded_chunks, loop, call, raised,
                   histVars>>

\* PineconeService.sync is called once more with the chunk lists the first
\* call was given (the dicts as the first call left them)
PineconeSyncAgain ==
    /\ pc = "synced"
    /\ call = 1
    /\ embedded_chunks # <<>>
    /\ pc' = "pinecone"
    /\ loop' = 1
    /\ call' = 2
    /\ UNCHANGED <<chunkVars, otherVars, embed, clearing, storeVars, dir, filenames, mapped_docs,
                   chunked_docs, embedded_chunks, raised, histVars>>

\* app.py 56: "Sync Complete."
SyncComplete ==
    /\ pc = "synced"
    /\ pc' = "finally"
    /\ UNCHANGED <<chunkVars, otherVars, embed, clearing, storeVars, dir, filenames, mapped_docs,
                   chunked_docs, embedded_chunks, loop, call, raised,
                   histVars>>

\* a clearing whose failure would leave App.sync as an exception
SyncOutcomeClearRaises(pipeline_raised, clear_failed) ==
    IF pipeline_raised \/ clear_failed THEN "raised" ELSE "returned"

\* how App.sync ends: the exception of the try block, if any, goes on to
\* App.run; a failure of the clearing is caught and logged (lines 61-63)
SyncOutcome(pipeline_raised, clear_failed) ==
    IF pipeline_raised THEN "raised" ELSE "returned"

\* app.py 57-63: the finally block attempts to clear the download directory;
\* the attempt may fail, which is logged. A propagating exception is then
\* caught and logged by App.run. dir holds the files of the running download
\* only: a file a failed clearing left behind is never read
\* (document_service.py 60 keeps the downloaded names).
ClearDownloadDir ==
    /\ pc = "finally"
    /\ \E cleared \in BOOLEAN :
          clearing' = [attempts |-> clearing.attempts + 1,
                       failed |-> ~cleared,
                       outcome |-> SyncOutcome(raised, ~cleared)]
    /\ dir' = <<>>
    /\ pc' = "idle"
    /\ raised' = FALSE
    /\ filenames' = <<>>
    /\ mapped_docs' = <<>>
    /\ chunked_docs' = <<>>
    /\ embedded_chunks' = <<>>
    /\ loop' = 1
    /\ call' = 1
    /\ docsAtStart' = {}
    /\ prevIndex' = {}
    /\ last' = NoLast
    /\ embed' = NoEmbed
    /\ UNCHANGED <<chunkVars, otherVars, storeVars, failures>>

Init == ChunkerIdle /\ PipelineIdle /\ OthersIdle

Next ==
    \/ FetchFiles
    \/ MapDocument
    \/ MapDocumentRaises
    \/ GenerateChunks
    \/ BulkInsertChunks
    \/ BulkInsertRaises
    \/ GenerateEmbeddings
    \/ PineconeSyncDocument
    \/ PineconeSyncRaises
    \/ PineconeSyncReturn
    \/ PineconeSyncAgain
    \/ SyncComplete
    \/ ClearDownloadDir

Spec == Init /\ [][Next]_vars

(* ---------------- PineconeService.upsert_chunks on its own ---------------- *)
\* the document the chunks are upserted for
UpsertDocument == 1

\* the chunk at position k of an input: with or without "id" (0: none), with
\* or without the key "embedding"
InputChunk(k, has_id, has_embedding) ==
    LET base == [id |-> IF has_id THEN k ELSE 0,
                 document_id |-> UpsertDocument,
                 chunk_index |-> k - 1,
                 content |-> <<400 + k>>,
                 token_count |-> 400 + k]
    IN IF has_embedding THEN WithEmbedding(base) ELSE base

InputChunkLists ==
    UNION {{[k \in 1..n |-> InputChunk(k, f[k][1], f[k][2])] :
               f \in [1..n -> BOOLEAN \X BOOLEAN]} : n \in 1..MaxUpsertChunks}

\* a vector stored by an earlier sync under the id of position 1
StoredBefore ==
    [id |-> 1, values |-> Embedding(<<300>>), document_id |-> UpsertDocument,
     chunk_index |-> 0, token_count |-> 300]

InitUpsert ==
    /\ ChunkerIdle
    /\ SyncIdle
    /\ docTable = {}
    /\ chunkTable = {}
    /\ index \in {{}, {StoredBefore}}
    /\ nextId = MaxUpsertChunks + 1
    /\ upc = "call"
    /\ upsert_input \in InputChunkLists
    /\ SupaIdle
    /\ CleanupIdle
    /\ MySQLIdle

\* upsert_chunks: the vectors are built and index.upsert succeeds
UpsertChunks ==
    /\ upc = "call"
    /\ index' = Upsert(index, BuildVectors(upsert_input, UpsertDocument, nextId))
    /\ nextId' = nextId + FreshNeeded(upsert_input)
    /\ prevIndex' = index
    /\ upc' = "returned"
    /\ UNCHANGED <<chunkVars, docTable, chunkTable, syncVars, failures,
                   docsAtStart, last, embed, clearing, upsert_input, supaVars,
                   cleanupVars, mysqlVars>>

\* upsert_chunks: index.upsert raises, the exception is re-raised
UpsertChunksRaises ==
    /\ upc = "call"
    /\ prevIndex' = index
    /\ upc' = "raised"
    /\ UNCHANGED <<chunkVars, storeVars, syncVars, failures, docsAtStart, last,
                   embed, clearing, upsert_input, supaVars, cleanupVars,
                   mysqlVars>>

NextUpsert == UpsertChunks \/ UpsertChunksRaises

UpsertSpec == InitUpsert /\ [][NextUpsert]_vars

(* ---------------- SupabaseService.sync_document_chunks ---------------- *)
SupaDocuments == {1, 2}

\* the row stored for chunk_index k - 1 of a document by an earlier call
StoredRow(document_id, k) ==
    [id |-> 10 * document_id + k, document_id |-> document_id,
     chunk_index |-> k - 1, content |-> <<300 + k>>, token_count |-> 300 + k]

\* the new chunk of position k of a document: without id (0: None), or with
\* an id of its own
NewChunk(document_id, k, own_id) ==
    [id |-> IF own_id THEN 100 + 10 * document_id + k ELSE 0,
     chunk_index |-> k - 1, content |-> <<400 + k>>, token_count |-> 400 + k]

RowsOf(table, document_id) == {r \in table : r.document_id = document_id}

\* _fetch_document_chunks when an attempt succeeds: the rows of the document,
\* in an order the query does not fix (select without order, line 166-170)
FetchedRows(table, document_id) == Perms(RowsOf(table, document_id))

\* lines 79-80: the ids of the fetched rows given to the new chunks by position
SupaReuseIds(new_chunks, existing_chunks) ==
    [k \in 1..Len(new_chunks) |->
        IF k <= Min(Len(existing_chunks), Len(new_chunks))
        THEN [new_chunks[k] EXCEPT !.id = existing_chunks[k].id]
        ELSE new_chunks[k]]

\* lines 83-84: the ids of existing_chunks[new_count:]
SupaExtraIds(existing_chunks, new_count) ==
    IF new_count < Len(existing_chunks)
    THEN {existing_chunks[k].id : k \in (new_count + 1)..Len(existing_chunks)}
    ELSE {}

\* _upsert_document_chunks, lines 106-134: the chunks are upserted one by
\* one on conflict of id, a chunk without id is inserted under an
\* auto-generated id; the chunk of a position in failed is logged and passed
\* over. The result is [table, next]: the rows and the next fresh id.
RECURSIVE UpsertRows(_, _, _, _, _, _)
UpsertRows(table, next, document_id, new_chunks, k, failed) ==
    IF k > Len(new_chunks) THEN [table |-> table, next |-> next]
    ELSE IF k \in failed
    THEN UpsertRows(table, next, document_id, new_chunks, k + 1, failed)
    ELSE LET chunk == new_chunks[k]
             fresh == chunk.id = 0
             row == [id |-> IF fresh THEN next ELSE chunk.id,
                     document_id |-> document_id,
                     chunk_index |-> chunk.chunk_index,
                     content |-> chunk.content,
                     token_count |-> chunk.token_count]
         IN UpsertRows({r \in table : r.id # row.id} \cup {row},
                       IF fresh THEN next + 1 ELSE next,
                       document_id, new_chunks, k + 1, failed)

\* the arguments of the call: one or two documents, each with up to
\* MaxSupaChunks rows stored and up to MaxSupaChunks new chunks
InitSupa ==
    /\ ChunkerIdle
    /\ PipelineIdle
    /\ UpsertIdle
    /\ CleanupIdle
    /\ MySQLIdle
    /\ \E order \in UNION {Perms(D) : D \in SUBSET SupaDocuments \ {{}}} :
         \E stored \in [SupaDocuments -> 0..MaxSupaChunks],
            new \in [SupaDocuments -> 0..MaxSupaChunks], own_id \in BOOLEAN :
            /\ supaTable = UNION {{StoredRow(d, k) : k \in 1..stored[d]} :
                                     d \in SupaDocuments}
            /\ document_chunks =
                   [j \in 1..Len(order) |->
                       [document_id |-> order[j],
                        chunks |-> [k \in 1..new[order[j]] |->
                                       NewChunk(order[j], k, own_id)]]]
            /\ \A d \in SupaDocuments \ SeqRange(order) : new[d] = 0
    /\ supaNextId = 1
    /\ supaLoop = 1
    /\ spc = "loop"
    /\ supaBefore = supaTable
    /\ supaFailed = {}

\* one iteration of the loop of lines 69-94 whose fetch succeeds. A failed
\* delete of the extra rows is logged (lines 86-90), a failed upsert of a
\* chunk is logged (lines 130-134): neither ends the iteration.
SupaSyncDocument ==
    /\ spc = "loop"
    /\ supaLoop <= Len(document_chunks)
    /\ LET doc_id == document_chunks[supaLoop].document_id
           new_chunks == document_chunks[supaLoop].chunks
       IN \E existing_chunks \in FetchedRows(supaTable, doc_id),
             deleted \in BOOLEAN,
             failed \in SUBSET (1..Len(new_chunks)) :
            LET reused == SupaReuseIds(new_chunks, existing_chunks)
                extra_ids == SupaExtraIds(existing_chunks, Len(new_chunks))
                kept == IF deleted
                        THEN {r \in supaTable : r.id \notin extra_ids}
                        ELSE supaTable
                done == UpsertRows(kept, supaNextId, doc_id, reused, 1, failed)
            IN /\ ~deleted => extra_ids # {}
               /\ supaTable' = done.table
               /\ supaNextId' = done.next
               /\ document_chunks' =
                      [document_chunks EXCEPT ![supaLoop].chunks = reused]
               /\ supaFailed' = IF deleted /\ failed = {} THEN supaFailed
                                ELSE supaFailed \cup {doc_id}
    /\ supaLoop' = supaLoop + 1
    /\ UNCHANGED <<pipelineVars, upsertVars, cleanupVars, mysqlVars, spc,
                   supaBefore>>

\* every attempt of _fetch_document_chunks fails: it returns None, and
\* len(existing_chunks) (line 73) raises
SupaFetchRaises ==
    /\ spc = "loop"
    /\ supaLoop <= Len(document_chunks)
    /\ spc' = "raised"
    /\ UNCHANGED <<pipelineVars, upsertVars, cleanupVars, mysqlVars, supaTable,
                   supaNextId,
                   document_chunks, supaLoop, supaBefore, supaFailed>>

\* sync_document_chunks returns (line 96)
SupaSyncReturn ==
    /\ spc = "loop"
    /\ supaLoop > Len(document_chunks)
    /\ spc' = "returned"
    /\ UNCHANGED <<pipelineVars, upsertVars, cleanupVars, mysqlVars, supaTable,
                   supaNextId,
                   document_chunks, supaLoop, supaBefore, supaFailed>>

NextSupa == SupaSyncDocument \/ SupaFetchRaises \/ SupaSyncReturn

SupaSpec == InitSupa /\ [][NextSupa]_vars

(* ---------------- CleanupService ---------------- *)
\* the titles a cleanup may be requested for; no document has the last one
CleanupTitles == {"t1", "t2", "t3"}

FileNames == [title : CleanupTitles, ext : {".docx"}]

\* os.path.splitext(file)[0], line 20
TitleOfFile(file) == file.title

\* the id of the document stored for a title
StoredId(title) == IF title = "t1" THEN 1 ELSE 2

\* what the stores hold for a title: a document or none, its chunk rows
\* (none without the document: the foreign key), and the vectors stored
\* under its id, which an earlier cleanup may have left behind
StoredShapes ==
    {x \in [doc : BOOLEAN, rows : 0..MaxCleanupChunks,
            vectors : 0..MaxCleanupChunks] : x.rows > 0 => x.doc}

StoredDocs(shape) ==
    {[id |-> StoredId(t), title |-> t, content |-> <<300>>] :
        t \in {x \in DOMAIN shape : shape[x].doc}}

StoredRows(shape) ==
    UNION {{[id |-> 10 * StoredId(t) + k, document_id |-> StoredId(t),
             chunk_index |-> k - 1, content |-> <<300 + k>>,
             token_count |-> 300 + k] : k \in 1..shape[t].rows} :
              t \in DOMAIN shape}

StoredVectors(shape) ==
    UNION {{[id |-> 10 * StoredId(t) + k, values |-> Embedding(<<300 + k>>),
             document_id |-> StoredId(t), chunk_index |-> k - 1,
             token_count |-> 300 + k] : k \in 1..shape[t].vectors} :
              t \in DOMAIN shape}

\* MySQLService.get_document_ids_by_titles: the ids of the documents whose
\* title is one of titles
get_document_ids_by_titles(docs, titles) ==
    {d.id : d \in {x \in docs : x.title \in titles}}

\* MySQLService.delete_documents_by_ids on the documents table
delete_documents_by_ids(docs, ids) == {d \in docs : d.id \notin ids}

\* FOREIGN KEY (document_id) ... ON DELETE CASCADE on the chunk table
CascadeDelete(rows, ids) == {r \in rows : r.document_id \notin ids}

\* an index.delete that removes every vector
DeleteByFilterAll(idx, doc_id) == {}

\* an index.delete that removes nothing
DeleteByFilterNone(idx, doc_id) == idx

\* index.delete(filter={"document_id": {"$eq": doc_id}}), line 60
DeleteByFilter(idx, doc_id) == {v \in idx : v.document_id # doc_id}

InitCleanup ==
    /\ ChunkerIdle
    /\ SyncIdle
    /\ UpsertIdle
    /\ SupaIdle
    /\ MySQLIdle
    /\ \E shape \in [{"t1", "t2"} -> StoredShapes] :
          /\ docTable = StoredDocs(shape)
          /\ chunkTable = StoredRows(shape)
          /\ index = StoredVectors(shape)
    /\ nextId = 1
    /\ requested_files \in SUBSET FileNames
    /\ kpc = "lookup"
    /\ document_ids = <<>>
    /\ kloop = 1
    /\ storesBefore = [docs |-> docTable, rows |-> chunkTable,
                       vectors |-> index]
    /\ issuedMySQL = {}
    /\ issuedPinecone = {}
    /\ pineconeFailed = {}
    /\ mysqlFailed = FALSE

\* run, lines 67-70: get_document_ids returns the ids of the requested
\* titles, in the order the query yields; without any id run returns
GetDocumentIds ==
    /\ kpc = "lookup"
    /\ LET titles == {TitleOfFile(file) : file \in requested_files}
       IN \E ids \in Perms(get_document_ids_by_titles(docTable, titles)) :
            /\ document_ids' = ids
            /\ kpc' = IF ids = <<>> THEN "returned" ELSE "mysql"
    /\ UNCHANGED <<pipelineVars, upsertVars, supaVars, mysqlVars, requested_files, kloop,
                   storesBefore, issuedMySQL, issuedPinecone, pineconeFailed,
                   mysqlFailed>>

\* the lookup raises: get_document_ids returns [] (lines 34-38) and run
\* returns (lines 68-70)
GetDocumentIdsFails ==
    /\ kpc = "lookup"
    /\ requested_files # {}
    /\ document_ids' = <<>>
    /\ kpc' = "returned"
    /\ UNCHANGED <<pipelineVars, upsertVars, supaVars, mysqlVars, requested_files, kloop,
                   storesBefore, issuedMySQL, issuedPinecone, pineconeFailed,
                   mysqlFailed>>

\* delete_documents_in_mysql, lines 46-48: the documents are deleted, and
\* their chunk rows with them
DeleteDocumentsInMySQL ==
    /\ kpc = "mysql"
    /\ docTable' = delete_documents_by_ids(docTable, SeqRange(document_ids))
    /\ chunkTable' = CascadeDelete(chunkTable, SeqRange(document_ids))
    /\ issuedMySQL' = issuedMySQL \cup SeqRange(document_ids)
    /\ kpc' = "pinecone"
    /\ UNCHANGED <<chunkVars, index, nextId, syncVars, histVars, embed, clearing,
                   upsertVars, supaVars, mysqlVars, requested_files, document_ids, kloop,
                   storesBefore, issuedPinecone, pineconeFailed, mysqlFailed>>

\* delete_documents_in_mysql, lines 49-51: the delete raises, the exception
\* is logged and raised again, and leaves run
DeleteDocumentsInMySQLRaises ==
    /\ kpc = "mysql"
    /\ issuedMySQL' = issuedMySQL \cup SeqRange(document_ids)
    /\ mysqlFailed' = TRUE
    /\ kpc' = "raised"
    /\ UNCHANGED <<pipelineVars, upsertVars, supaVars, mysqlVars, requested_files,
                   document_ids, kloop, storesBefore, issuedPinecone,
                   pineconeFailed>>

\* delete_chunks_in_pinecone, one iteration of the loop of lines 58-63: a
\* delete that raises is logged
DeleteChunksInPinecone ==
    /\ kpc = "pinecone"
    /\ kloop <= Len(document_ids)
    /\ LET doc_id == document_ids[kloop]
       IN /\ issuedPinecone' = issuedPinecone \cup {doc_id}
          /\ \E deleted \in BOOLEAN :
               IF deleted
               THEN /\ index' = DeleteByFilter(index, doc_id)
                    /\ UNCHANGED pineconeFailed
               ELSE /\ pineconeFailed' = pineconeFailed \cup {doc_id}
                    /\ UNCHANGED index
    /\ kloop' = kloop + 1
    /\ UNCHANGED <<chunkVars, docTable, chunkTable, nextId, syncVars, histVars,
                   embed, clearing, upsertVars, supaVars, mysqlVars, kpc, requested_files,
                   document_ids, storesBefore, issuedMySQL, mysqlFailed>>

\* run, line 74: "Document removal completed."
CleanupReturn ==
    /\ kpc = "pinecone"
    /\ kloop > Len(document_ids)
    /\ kpc' = "returned"
    /\ UNCHANGED <<pipelineVars, upsertVars, supaVars, mysqlVars, requested_files,
                   document_ids, kloop, storesBefore, issuedMySQL,
                   issuedPinecone, pineconeFailed, mysqlFailed>>

NextCleanup ==
    \/ GetDocumentIds
    \/ GetDocumentIdsFails
    \/ DeleteDocumentsInMySQL
    \/ DeleteDocumentsInMySQLRaises
    \/ DeleteChunksInPinecone
    \/ CleanupReturn

CleanupSpec == InitCleanup /\ [][NextCleanup]_vars

(* ---------------- MySQLService, statement by statement ---------------- *)
Transactional == {"insert_document", "bulk_insert_chunks"}

\* the arguments of a call: a title to select by, a document to insert, or
\* a list of up to MaxBulkChunks chunks of one document
ArgsOf(op) ==
    IF op = "execute_query" THEN {<<t>> : t \in Titles}
    ELSE IF op = "insert_document"
    THEN {<<[title |-> t, content |-> <<400>>]>> : t \in Titles}
    ELSE {[k \in 1..n |-> [id |-> 0, document_id |-> 1, chunk_index |-> k - 1,
                           content |-> <<400 + k>>, token_count |-> 400 + k]] :
             n \in 0..MaxBulkChunks}

\* the uuids a call generates
UuidsOf(op, args) == IF op = "execute_query" THEN 0 ELSE Len(args)

\* pool.connection(): one more connection is out of the pool
Acquire(n) == n + 1

\* a close that does not give the connection back
ReleaseNone(n) == n

\* conn.close() of a pooled connection: it goes back to the pool
Release(n) == n - 1

\* an INSERT that is committed at once, transaction or not
ExecuteInsertAutocommit(stored, buffered, row, transaction) ==
    [stored |-> stored \cup {row}, buffered |-> buffered]

\* cursor.execute(INSERT ...): inside the transaction conn.begin() opened
\* the row is held back until the commit; outside of one the connection
\* commits each statement (autocommit=True, line 56)
ExecuteInsert(stored, buffered, row, transaction) ==
    IF transaction = "open"
    THEN [stored |-> stored, buffered |-> buffered \cup {row}]
    ELSE [stored |-> stored \cup {row}, buffered |-> buffered]

\* the table an operation writes
WrittenTable(op) == IF op = "insert_document" THEN docTable
                    ELSE IF op = "bulk_insert_chunks" THEN chunkTable ELSE {}

\* a method is called and takes a connection from the pool (lines 66, 134,
\* 168); the pool blocks when maxconnections are out
PoolConnection ==
    /\ mpc = "idle"
    /\ checkedOut < maxconnections
    /\ \E op \in Transactional \cup {"execute_query"} :
         \E args \in ArgsOf(op) :
            /\ nextId + UuidsOf(op, args) - 1 <= MaxMySQLIds
            /\ mop' = op
            /\ margs' = args
            /\ tableBefore' = WrittenTable(op)
    /\ checkedOut' = Acquire(checkedOut)
    /\ mloop' = 1
    /\ mresult' = "none"
    /\ mpc' = "try"
    /\ UNCHANGED <<pipelineVars, upsertVars, supaVars, cleanupVars, txn,
                   pending>>

\* pool.connection() raises: the method is left before its try statement,
\* without a connection
PoolConnectionRaises ==
    /\ mpc = "idle"
    /\ \E op \in Transactional \cup {"execute_query"} :
         \E args \in ArgsOf(op) :
            /\ mop' = op
            /\ margs' = args
            /\ tableBefore' = WrittenTable(op)
    /\ mloop' = 1
    /\ mresult' = "raised"
    /\ UNCHANGED <<pipelineVars, upsertVars, supaVars, cleanupVars, mpc,
                   checkedOut, txn, pending>>

\* execute_query, lines 68-72: the statement runs and the result is returned;
\* or it raises (lines 74-76, or an exception that is not caught)
ExecuteQuery ==
    /\ mpc = "try"
    /\ mop = "execute_query"
    /\ mresult' \in {"returned", "raised"}
    /\ mpc' = "finally"
    /\ UNCHANGED <<pipelineVars, upsertVars, supaVars, cleanupVars, mop, margs,
                   mloop, checkedOut, txn, pending, tableBefore>>

\* conn.begin(), lines 136 and 170
Begin ==
    /\ mpc = "try"
    /\ mop \in Transactional
    /\ txn' = "open"
    /\ mpc' = "body"
    /\ UNCHANGED <<pipelineVars, upsertVars, supaVars, cleanupVars, mop, margs,
                   mloop, checkedOut, pending, tableBefore, mresult>>

\* conn.begin() raises
BeginRaises ==
    /\ mpc = "try"
    /\ mop \in Transactional
    /\ mpc' = "except"
    /\ UNCHANGED <<pipelineVars, upsertVars, supaVars, cleanupVars, mop, margs,
                   mloop, checkedOut, txn, pending, tableBefore, mresult>>

\* one INSERT: of the document (lines 139-145) or of the next chunk (lines
\* 178-191), under a new uuid
InsertRow ==
    /\ mpc = "body"
    /\ mloop <= Len(margs)
    /\ LET row == IF mop = "insert_document"
                  THEN [id |-> nextId, title |-> margs[mloop].title,
                        content |-> margs[mloop].content]
                  ELSE ChunkRow([margs[mloop] EXCEPT !.id = nextId])
           done == ExecuteInsert(WrittenTable(mop), pending, row, txn)
       IN /\ pending' = done.buffered
          /\ IF mop = "insert_document"
             THEN docTable' = done.stored /\ UNCHANGED <<chunkTable, margs>>
             ELSE /\ chunkTable' = done.stored
                  /\ margs' = [margs EXCEPT ![mloop].id = nextId]
                  /\ UNCHANGED docTable
    /\ nextId' = nextId + 1
    /\ mloop' = mloop + 1
    /\ UNCHANGED <<chunkVars, index, syncVars, histVars, embed, clearing, upsertVars,
                   supaVars, cleanupVars, mpc, mop, checkedOut, txn,
                   tableBefore, mresult>>

\* the INSERT raises
InsertRowRaises ==
    /\ mpc = "body"
    /\ mloop <= Len(margs)
    /\ mpc' = "except"
    /\ UNCHANGED <<pipelineVars, upsertVars, supaVars, cleanupVars, mop, margs,
                   mloop, checkedOut, txn, pending, tableBefore, mresult>>

\* conn.commit(), lines 154 and 195, and the return
Commit ==
    /\ mpc = "body"
    /\ mloop > Len(margs)
    /\ IF mop = "insert_document"
       THEN docTable' = docTable \cup pending /\ UNCHANGED chunkTable
       ELSE chunkTable' = chunkTable \cup pending /\ UNCHANGED docTable
    /\ pending' = {}
    /\ txn' = "none"
    /\ mresult' = "returned"
    /\ mpc' = "finally"
    /\ UNCHANGED <<chunkVars, index, nextId, syncVars, histVars, embed, clearing,
                   upsertVars, supaVars, cleanupVars, mop, margs, mloop,
                   checkedOut, tableBefore>>

\* conn.commit() raises
CommitRaises ==
    /\ mpc = "body"
    /\ mloop > Len(margs)
    /\ mpc' = "except"
    /\ UNCHANGED <<pipelineVars, upsertVars, supaVars, cleanupVars, mop, margs,
                   mloop, checkedOut, txn, pending, tableBefore, mresult>>

\* except Exception: conn.rollback(), log, raise (lines 158-161, 199-202)
Rollback ==
    /\ mpc = "except"
    /\ pending' = {}
    /\ txn' = "none"
    /\ mresult' = "raised"
    /\ mpc' = "finally"
    /\ UNCHANGED <<pipelineVars, upsertVars, supaVars, cleanupVars, mop, margs,
                   mloop, checkedOut, tableBefore>>

\* finally: conn.close() (lines 78-79, 163-164, 204-205)
Close ==
    /\ mpc = "finally"
    /\ checkedOut' = Release(checkedOut)
    /\ mpc' = "idle"
    /\ UNCHANGED <<pipelineVars, upsertVars, supaVars, cleanupVars, mop, margs,
                   mloop, txn, pending, tableBefore, mresult>>

NextMySQL ==
    \/ PoolConnection
    \/ PoolConnectionRaises
    \/ ExecuteQuery
    \/ Begin
    \/ BeginRaises
    \/ InsertRow
    \/ InsertRowRaises
    \/ Commit
    \/ CommitRaises
    \/ Rollback
    \/ Close

MySQLSpec == Init /\ [][NextMySQL]_vars

(* ---------------- properties of the pipeline ---------------- *)
RowsOfDocument(document_id) == {r \in chunkTable : r.document_id = document_id}

\* the number of chunks this run produced for a document
ChunksProduced(document_id) ==
    Cardinality({k \in 1..Len(chunked_docs) :
                    chunked_docs[k].document_id = document_id})

MappedIds == {mapped_docs[k].id : k \in 1..Len(mapped_docs)}

\* process and bulk_insert_chunks have returned, and no call has ever failed
InsertSucceeded == pc \in {"embed", "pinecone", "synced"} /\ failures = 0

\* App.sync has reached "Sync Complete." and no call has ever failed
SyncSucceeded == pc = "synced" /\ failures = 0

\* C1: after successful runs of App.sync the chunk rows stored for a document
\* have chunk_index exactly 0..N-1, without gap or duplicate, N being the
\* number of chunks of the most recent run.
C1_DenseChunkIndex ==
    InsertSucceeded =>
        \A d \in MappedIds :
            /\ Cardinality(RowsOfDocument(d)) = ChunksProduced(d)
            /\ {r.chunk_index : r \in RowsOfDocument(d)}
                   = 0..(ChunksProduced(d) - 1)

\* C2: after a successful App.sync of a document, first sync or resync, the
\* vector ids stored under its document_id are the ids of its chunk rows.
C2_VectorIdsAreRowIds ==
    SyncSucceeded =>
        \A d \in MappedIds :
            IdsOf(VectorsOfDocument(index, d)) = IdsOf(RowsOfDocument(d))

\* the last iteration of PineconeService.sync returned, its calls succeeded
IterationDone ==
    pc \in {"pinecone", "synced"} /\ last.document_id # 0 /\ last.ok

Before == VectorsOfDocument(prevIndex, last.document_id)
After == VectorsOfDocument(index, last.document_id)

\* C3: a second call of PineconeService.sync with the same chunk lists leaves
\* every document with the vectors the first call left: same ids, and every
\* id with the same values, chunk_index and token_count.
C3_SecondSyncChangesNothing ==
    (IterationDone /\ failures = 0 /\ last.call = 2) => After = Before

\* C4: when the new chunk list is shorter than the document's stored vectors,
\* exactly existingCount - newCount vectors are deleted, those of the highest
\* prior chunk_index, and every surviving id keeps its chunk_index.
C4_ShrinkDeletesHighest ==
    (IterationDone /\ failures = 0 /\ last.new_count < Cardinality(Before)) =>
        LET deleted == {v \in Before : v.id \notin IdsOf(After)}
            kept == Before \ deleted
        IN /\ Cardinality(deleted) = Cardinality(Before) - last.new_count
           /\ \A x \in deleted, y \in kept : x.chunk_index > y.chunk_index
           /\ \A v \in After : \E u \in Before :
                  u.id = v.id /\ u.chunk_index = v.chunk_index

C6_ContentUpdatedInPlace ==
    SyncSucceeded =>
        \A old \in docsAtStart :
            (old.title \in DOMAIN dir /\ dir[old.title] # <<>>) =>
                \E r \in docTable :
                    /\ r.id = old.id
                    /\ r.title = old.title
                    /\ r.content = dir[old.title]

(* ---------------- properties of the chunker ---------------- *)
Range(s) == {s[k] : k \in 1..Len(s)}

Concat(ss) ==
    LET RECURSIVE Cat(_)
        Cat(k) == IF k > Len(ss) THEN <<>> ELSE ss[k] \o Cat(k + 1)
    IN Cat(1)

\* a chunk is a run i, i+1, ..., j of input sentences
IsRun(chunk) ==
    /\ chunk # <<>>
    /\ \A j \in 1..(Len(chunk) - 1) : chunk[j + 1] = chunk[j] + 1

\* a chunk without the leading sentences it took over from the previous one
RECURSIVE DropCarried(_, _)
DropCarried(prev, chunk) ==
    IF chunk # <<>> /\ chunk[1] \in Range(prev)
    THEN DropCarried(prev, Tail(chunk))
    ELSE chunk

NewParts ==
    [k \in 1..Len(chunks) |->
        IF k = 1 THEN chunks[1] ELSE DropCarried(chunks[k - 1], chunks[k])]

\* the number of sentences chunk k+1 shares with chunk k
SharedLen(k) == Cardinality(Range(chunks[k]) \cap Range(chunks[k + 1]))

HasOversized(chunk) ==
    \E j \in 1..Len(chunk) : sentences[chunk[j]] > CHUNK_MAX_SIZE

\* C7: every emitted chunk has at most CHUNK_MAX_SIZE tokens (the sum of its
\* sentences' token counts), except a chunk that contains a sentence which by
\* itself exceeds CHUNK_MAX_SIZE.
C7_ChunkWithinMax ==
    cpc = "done" =>
        \A k \in 1..Len(chunks) :
            \/ TokensOf(sentences, chunks[k]) <= CHUNK_MAX_SIZE
            \/ HasOversized(chunks[k])

\* C8: each emitted chunk is a contiguous run of input sentences in source
\* order, and the chunks without their carried-over leading sentences,
\* concatenated, are the input sentences, each exactly once and in order.
C8_SentencesPreserved ==
    cpc = "done" =>
        /\ \A k \in 1..Len(chunks) : IsRun(chunks[k])
        /\ Concat(NewParts) = [i \in 1..Len(sentences) |-> i]

C8_Witness ==
    /\ cpc = "done"
    /\ Len(chunks) >= 3
    /\ \E k \in 2..Len(chunks) : Len(chunks[k]) - Len(NewParts[k]) >= 2

\* C9: consecutive chunks k and k+1 share a non-empty run of whole sentences,
\* a suffix of chunk k and a prefix of chunk k+1, of at least CHUNK_OVERLAP
\* tokens, unless chunk k as a whole has fewer than CHUNK_OVERLAP tokens, and
\* then all of chunk k is carried over.
C9_OverlapFloor ==
    \A k \in 1..(Len(chunks) - 1) :
        LET a == chunks[k]
            b == chunks[k + 1]
            n == SharedLen(k)
        IN /\ n >= 1
           /\ n <= Len(a) /\ n <= Len(b)
           /\ SubSeq(a, Len(a) - n + 1, Len(a)) = SubSeq(b, 1, n)
           /\ \/ TokensOf(sentences, SubSeq(b, 1, n)) >= CHUNK_OVERLAP
              \/ /\ TokensOf(sentences, a) < CHUNK_OVERLAP
                 /\ n = Len(a)

\* a seed of two sentences, and a chunk too short to hold a full seed
C9_Witness ==
    /\ cpc = "done"
    /\ Len(chunks) >= 2
    /\ \E k \in 1..(Len(chunks) - 1) :
          SharedLen(k) = 2 /\ Len(chunks[k]) > 2

C9_WitnessShort ==
    /\ cpc = "done"
    /\ \E k \in 1..(Len(chunks) - 1) :
          TokensOf(sentences, chunks[k]) < CHUNK_OVERLAP

\* C10: a sentence whose token count alone exceeds CHUNK_MAX_SIZE is emitted
\* as a chunk of its own, wherever it stands in the input.
C10_OversizedAlone ==
    cpc = "done" =>
        \A i \in 1..Len(sentences) :
            sentences[i] > CHUNK_MAX_SIZE =>
                \E k \in 1..Len(chunks) : chunks[k] = <<i>>

\* the step-by-step run and the function agree
ChunkTextAgrees == cpc = "done" => chunks = ChunkText(sentences)

(* ---------------- upsert_chunks: incomplete chunks ---------------- *)
HasEmbedding(chunk) == "embedding" \in DOMAIN chunk
HasId(chunk) == chunk.id # 0

\* the vectors the call wrote: new, or stored anew under an old id
Written == index \ prevIndex

GivenIds == {upsert_input[k].id : k \in 1..Len(upsert_input)}

\* a vector written under the chunk's own id, with its embedding
UpsertedOwn(chunk) ==
    \E v \in index : /\ v.id = chunk.id
                      /\ v.values = chunk.embedding
                      /\ v.chunk_index = chunk.chunk_index

\* a vector written under an id made up by the call, with the chunk's
\* embedding
UpsertedFresh(chunk) ==
    \E v \in Written : /\ v.id \notin IdsOf(prevIndex) \cup GivenIds
                        /\ v.values = chunk.embedding
                        /\ v.chunk_index = chunk.chunk_index

NothingUpserted(chunk) ==
    \A v \in Written : v.chunk_index # chunk.chunk_index

JustEmbedded == pc = "pinecone" /\ loop = 1 /\ call = 1

\* the positions of the input chunks of a document whose call succeeded
Succeeded(document_id) ==
    {k \in 1..Len(chunked_docs) :
        chunked_docs[k].document_id = document_id /\ k \notin embed.failed}

\* s is the chunks of the positions P of the input, in input order, each
\* with its embedding
IsSelection(s, P) ==
    /\ Len(s) = Cardinality(P)
    /\ \E f \in [1..Len(s) -> P] :
          /\ \A i, j \in 1..Len(s) : i < j => f[i] < f[j]
          /\ \A i \in 1..Len(s) :
                /\ s[i].id = chunked_docs[f[i]].id
                /\ s[i].document_id = chunked_docs[f[i]].document_id
                /\ s[i].chunk_index = chunked_docs[f[i]].chunk_index
                /\ s[i].content = chunked_docs[f[i]].content
                /\ s[i].embedding = Embedding(chunked_docs[f[i]].content)

\* C19: when generate_embeddings has returned, one embedding call was made
\* for each input chunk, and the result holds one group per document with a
\* successful call, the group being that document's chunks whose call
\* succeeded, in input order and with their embeddings; the chunks whose call
\* failed, and only those, are in no group.
C19_FailedEmbeddingsOmitted ==
    JustEmbedded =>
        /\ Len(embed.calls) = Len(chunked_docs)
        /\ \A k \in 1..Len(chunked_docs) :
              Cardinality({c \in 1..Len(embed.calls) : embed.calls[c] = k}) = 1
        /\ \A j, k \in 1..Len(embedded_chunks) :
              embedded_chunks[j].document_id = embedded_chunks[k].document_id
                  => j = k
        /\ \A k \in 1..Len(chunked_docs) :
              k \notin embed.failed =>
                  \E j \in 1..Len(embedded_chunks) :
                      embedded_chunks[j].document_id
                          = chunked_docs[k].document_id
        /\ \A j \in 1..Len(embedded_chunks) :
              IsSelection(embedded_chunks[j].chunks,
                          Succeeded(embedded_chunks[j].document_id))

\* a failed call before a successful one of the same document
C19_Witness ==
    /\ JustEmbedded
    /\ \E k \in embed.failed :
          \E n \in Succeeded(chunked_docs[k].document_id) : k < n
    /\ embedded_chunks # <<>>

\* C20: every chunk list handed to PineconeService.sync has the chunk with
\* chunk_index i at position i (the first position being 0).
C20_PositionIsChunkIndex ==
    JustEmbedded =>
        \A j \in 1..Len(embedded_chunks) :
            \A i \in 1..Len(embedded_chunks[j].chunks) :
                embedded_chunks[j].chunks[i].chunk_index = i - 1

(* ---------------- a failure in one document of a batch ---------------- *)
\* App.sync is leaving with the exception bulk_insert_chunks raised
FailedInInsert ==
    pc = "finally" /\ raised /\ chunked_docs # <<>> /\ embed.calls = <<>>

\* App.sync is leaving with the exception PineconeService.sync raised
FailedInPinecone == pc = "finally" /\ raised /\ embed.calls # <<>>

\* every chunk this run produced for the document has its row and its vector
Reconciled(document_id) ==
    \A k \in 1..Len(chunked_docs) :
        chunked_docs[k].document_id = document_id =>
            /\ \E r \in RowsOfDocument(document_id) :
                  /\ r.chunk_index = chunked_docs[k].chunk_index
                  /\ r.content = chunked_docs[k].content
            /\ \E v \in VectorsOfDocument(index, document_id) :
                  /\ v.chunk_index = chunked_docs[k].chunk_index
                  /\ v.values = Embedding(chunked_docs[k].content)

\* C13: when a row insert of bulk_insert_chunks, or a delete or an upsert of
\* PineconeService.sync, fails for one document and every embedding call
\* succeeded, every other document of the batch is reconciled in the
\* relational store and in the vector index when App.sync ends: at most the
\* one document is not.
C13_OtherDocumentsReconciled ==
    (FailedInInsert \/ FailedInPinecone) /\ embed.failed = {} =>
        Cardinality({d \in MappedIds : ~Reconciled(d)}) <= 1

(* ---------------- _map_documents ---------------- *)
\* no two records of the documents table have the same title
UniqueTitles == \A d, e \in docTable : d.title = e.title => d = e

\* one iteration of the loop of _map_documents that does not raise
MapStep == pc = "map" /\ loop <= Len(filenames) /\ loop' = loop + 1

\* C18: an iteration of _map_documents over a document with text and a new
\* title inserts exactly one record and returns it; over a document whose
\* title has a record it writes nothing and returns that record with the
\* new content; over a document without text it writes nothing and returns
\* nothing; an iteration that raises writes nothing; and no two records ever
\* have the same title.
C18_MapInsertsOnlyNewTitles ==
    /\ []UniqueTitles
    /\ [][/\ MapStep =>
              LET title == filenames[loop]
                  content == dir[title]
                  existing == {d \in docTable : d.title = title}
              IN /\ chunkTable' = chunkTable
                 /\ index' = index
                 /\ IF content = <<>>
                    THEN docTable' = docTable /\ mapped_docs' = mapped_docs
                    ELSE IF existing = {}
                    THEN \E data \in docTable' \ docTable :
                           /\ docTable' = docTable \cup {data}
                           /\ data.title = title
                           /\ data.content = content
                           /\ data.id \notin {d.id : d \in docTable}
                           /\ mapped_docs' = Append(mapped_docs, data)
                    ELSE /\ docTable' = docTable
                         /\ \E document \in existing :
                               mapped_docs' = Append(mapped_docs,
                                   [document EXCEPT !.content = content])
          /\ (pc = "map" /\ raised') =>
                 docTable' = docTable /\ chunkTable' = chunkTable
                 /\ index' = index]_vars

\* _map_documents has returned a stored record with new content in memory
C18_Witness ==
    /\ pc = "map"
    /\ \E k \in 1..Len(mapped_docs) :
          \E d \in docTable :
              /\ d.id = mapped_docs[k].id
              /\ d.title = mapped_docs[k].title
              /\ d.content # mapped_docs[k].content
    /\ \E t \in DOMAIN dir : dir[t] = <<>>

(* ---------------- sync_document_chunks ---------------- *)
\* the new chunks of the document at position j of the argument
NewChunks(j) == document_chunks[j].chunks

\* the stored rows of the document are its new chunks, one row per chunk
CompleteNewSet(j) ==
    LET rows == RowsOf(supaTable, document_chunks[j].document_id)
    IN /\ Cardinality(rows) = Len(NewChunks(j))
       /\ {r.chunk_index : r \in rows} = 0..(Len(NewChunks(j)) - 1)
       /\ \A r \in rows : r.content = NewChunks(j)[r.chunk_index + 1].content

\* the row now at each chunk_index below both counts has the id of the row
\* that was at that chunk_index before the call
IdsKeptByChunkIndex(j) ==
    \A r \in RowsOf(supaTable, document_chunks[j].document_id),
       b \in RowsOf(supaBefore, document_chunks[j].document_id) :
        r.chunk_index = b.chunk_index => r.id = b.id

\* C11: when sync_document_chunks returns and no delete or upsert failed,
\* the rows of each document of the argument have chunk_index exactly
\* 0..newCount-1 with the new content, and the row at each chunk_index below
\* min(existingCount, newCount) has the id of the row that was at that
\* chunk_index before the call.
C11_RowsReplacedIdsKept ==
    spc = "returned" /\ supaFailed = {} =>
        \A j \in 1..Len(document_chunks) :
            CompleteNewSet(j) /\ IdsKeptByChunkIndex(j)

\* C12: when sync_document_chunks ends, the rows of each document it has
\* passed are the complete new set or exactly the rows stored before the
\* call; and when a delete or an upsert failed for a document, its rows are
\* those stored before the call and the call has raised.
C12_AtomicPerDocument ==
    spc \in {"returned", "raised"} =>
        \A j \in 1..Len(document_chunks) :
            j < supaLoop =>
                LET d == document_chunks[j].document_id
                IN /\ \/ CompleteNewSet(j)
                      \/ RowsOf(supaTable, d) = RowsOf(supaBefore, d)
                   /\ d \in supaFailed =>
                         /\ RowsOf(supaTable, d) = RowsOf(supaBefore, d)
                         /\ spc = "raised"

(* ---------------- CleanupService.run ---------------- *)
\* the ids of the documents stored under a requested title when run began
Resolved ==
    {d.id : d \in {x \in storesBefore.docs :
                      \E file \in requested_files : x.title = file.title}}

CleanupEnded == kpc \in {"returned", "raised"}

NoRowOf(id) ==
    /\ \A d \in docTable : d.id # id
    /\ \A r \in chunkTable : r.document_id # id

NoVectorOf(id) == \A v \in index : v.document_id # id

\* C15 as stated: when run returns normally with resolved ids, no document
\* row, no chunk row and no vector of a resolved id remains.
C15_EverythingGone ==
    kpc = "returned" /\ Resolved # {} /\ document_ids # <<>> =>
        \A id \in Resolved : NoRowOf(id) /\ NoVectorOf(id)

\* C15 amended: when run returns normally with resolved ids, no document row
\* and no chunk row of a resolved id remains, and no vector of a resolved id
\* whose index delete did not fail; the vectors of an id whose index delete
\* failed are those stored before.
C15_GoneUnlessIndexDeleteFailed ==
    kpc = "returned" /\ Resolved # {} /\ document_ids # <<>> =>
        \A id \in Resolved :
            /\ NoRowOf(id)
            /\ id \notin pineconeFailed => NoVectorOf(id)
            /\ id \in pineconeFailed =>
                  VectorsOfDocument(index, id)
                      = VectorsOfDocument(storesBefore.vectors, id)

\* two documents with rows and vectors resolved, the index delete of one of
\* them failed
C15_Witness ==
    /\ kpc = "returned"
    /\ Cardinality(Resolved) = 2
    /\ \A id \in Resolved :
          /\ VectorsOfDocument(storesBefore.vectors, id) # {}
          /\ \E r \in storesBefore.rows : r.document_id = id
    /\ Cardinality(pineconeFailed) = 1
    /\ issuedPinecone = Resolved

\* C16: when the relational delete of run fails, run does not raise and the
\* index delete is issued for every resolved id.
C16_RelationalFailureContinues ==
    CleanupEnded /\ mysqlFailed =>
        kpc = "returned" /\ issuedPinecone = Resolved

\* C17: run issues relational and index deletes only for ids resolved from
\* the requested titles, and leaves the rows and vectors of every other id as
\* they were; a requested title without record raises nothing; and when no
\* id was resolved, or the lookup failed, run has returned normally without
\* any delete and the stores are as they were.
C17_DeletesOnlyResolved ==
    /\ issuedMySQL \subseteq Resolved
    /\ issuedPinecone \subseteq Resolved
    /\ \A d \in storesBefore.docs : d.id \notin Resolved => d \in docTable
    /\ \A r \in storesBefore.rows :
          r.document_id \notin Resolved => r \in chunkTable
    /\ \A v \in storesBefore.vectors :
          v.document_id \notin Resolved => v \in index
    /\ kpc = "raised" => mysqlFailed
    /\ CleanupEnded /\ document_ids = <<>> =>
          /\ kpc = "returned"
          /\ issuedMySQL = {} /\ issuedPinecone = {}
          /\ docTable = storesBefore.docs
          /\ chunkTable = storesBefore.rows
          /\ index = storesBefore.vectors

\* a title without record requested with one that has a record, whose
\* deletes were issued, while another document keeps its rows and vectors
C17_Witness ==
    /\ kpc = "returned"
    /\ \E file \in requested_files :
          \A d \in storesBefore.docs : d.title # file.title
    /\ Cardinality(Resolved) = 1
    /\ issuedMySQL = Resolved /\ issuedPinecone = Resolved
    /\ \E v \in index : v.document_id \notin Resolved
    /\ \E r \in chunkTable : r.document_id \notin Resolved

(* ---------------- MySQLService: transactions and the pool ---------------- *)
\* the chunk rows of the call, once every chunk has its uuid
CallRows == InsertedRows(margs)

AllInserted == \A k \in 1..Len(margs) : margs[k].id # 0

\* C21: in every state of a call of bulk_insert_chunks the table holds the
\* rows it held at the call, or those and every row of the call; when the
\* call has raised it holds none of the call's rows, when it has returned it
\* holds all of them.
C21_BulkInsertAllOrNothing ==
    mop = "bulk_insert_chunks" =>
        /\ \/ chunkTable = tableBefore
           \/ /\ AllInserted
              /\ chunkTable = tableBefore \cup CallRows
              /\ mresult = "returned"
        /\ mresult = "raised" => chunkTable = tableBefore
        /\ mresult = "returned" =>
              /\ AllInserted
              /\ chunkTable = tableBefore \cup CallRows
              /\ Cardinality(chunkTable \ tableBefore) = Len(margs)

\* the second INSERT of a call failed after the first was executed
C21_Witness ==
    /\ mop = "bulk_insert_chunks"
    /\ mpc = "idle"
    /\ mresult = "raised"
    /\ Len(margs) = 2
    /\ margs[1].id # 0 /\ margs[2].id = 0
    /\ chunkTable = tableBefore

\* C22: between two operations no connection is out of the pool, and a
\* connection is never given back with its transaction open or with rows
\* neither committed nor rolled back; an operation holds one connection.
C22_ConnectionsReleased ==
    /\ checkedOut \in 0..1
    /\ mpc = "idle" => checkedOut = 0
    /\ mpc # "idle" => checkedOut = 1
    /\ checkedOut = 0 => txn = "none" /\ pending = {}

\* an insert_document that failed after an earlier bulk_insert_chunks
\* succeeded
C22_Witness ==
    /\ mpc = "idle"
    /\ mop = "insert_document"
    /\ mresult = "raised"
    /\ chunkTable # {}
    /\ checkedOut = 0

(* ---------------- PineconeService.sync: vectors per document ---------------- *)
\* C23: when PineconeService.sync has returned without raising, the index
\* holds for every document of its input as many vectors as chunks were
\* passed for it, no two of them with the same chunk_index, also when a
\* fetch of the existing vectors failed.
C23_VectorCountIsChunkCount ==
    pc = "synced" =>
        \A j \in 1..Len(embedded_chunks) :
            LET vs == VectorsOfDocument(index, embedded_chunks[j].document_id)
            IN /\ Cardinality(vs) = Len(embedded_chunks[j].chunks)
               /\ \A v, w \in vs : v.chunk_index = w.chunk_index => v = w

(* ---------------- App.sync: the download directory ---------------- *)
\* C24: App.sync is left only through the finally block, which attempts the
\* clearing of the download directory once and not before: after the early
\* return without files, after an exception of any step, and after a
\* completed sync; and App.sync ends with the exception of its try block or
\* with a normal return if there was none, whether the clearing failed or
\* not.
C24_ClearedOnceOnEveryExit ==
    /\ [](pc # "idle" => clearing.attempts = 0)
    /\ [](pc = "idle" /\ clearing.outcome # "none" => clearing.attempts = 1)
    /\ [][/\ (pc # "idle" /\ pc' = "idle") =>
              /\ pc = "finally"
              /\ clearing'.attempts = 1
              /\ clearing'.outcome = IF raised THEN "raised" ELSE "returned"
          /\ (pc = "idle" /\ pc' # "idle" /\ filenames' = <<>>) =>
                 pc' = "finally"
          /\ (~raised /\ raised') => pc' = "finally"
          /\ (pc = "synced" /\ pc' \notin {"synced", "pinecone"}) =>
                 pc' = "finally" /\ ~raised']_vars

\* a completed sync that stored vectors, its clearing failed
C24_Witness ==
    /\ pc = "idle"
    /\ clearing.attempts = 1
    /\ clearing.failed
    /\ clearing.outcome = "returned"
    /\ index # {}

====
